---- MODULE Spec2Model ----
(***************************************************************************)
(* A state-machine model of libsemigroups' CongruenceInterface             *)
(* (src/src/cong-intf.cpp).  One action per public or protected member     *)
(* function; every action records the call it models (the arguments, the   *)
(* exception thrown, the value returned and the hooks invoked, in order)   *)
(* in the variable `call'.                                                 *)
(***************************************************************************)
EXTENDS Integers, Sequences, FiniteSets, TLC

\* ------------------------------------------------------------------ bounds
MaxGens    == 2   \* generator counts are drawn from 0..MaxGens
MaxPairs   == 1   \* at most MaxPairs generating pairs are stored
MaxClasses == 2   \* class indices returned by the hooks are < MaxClasses
MaxModulus == 3   \* the parent semigroups are Z_1 .. Z_MaxModulus

\* ------------------------------------------------------- program constants
\* The sentinels of constants.hpp, scaled to an 8 bit size_t: UNDEFINED is
\* the largest value of the type and POSITIVE_INFINITY the one below it.
UNDEFINED         == 255
POSITIVE_INFINITY == 254

VARIABLES
  type,                    \* _type: the congruence kind
  nr_gens,                 \* _nr_gens
  gen_pairs,               \* _gen_pairs
  parent,                  \* _parent (<<>> is nullptr, <<p>> points to p)
  parent_finished,         \* _parent->finished(): the state of the pointee
  init_ntc_done,           \* _init_ntc_done
  is_obviously_finite,     \* _is_obviously_finite
  is_obviously_infinite,   \* _is_obviously_infinite
  quotient,                \* _quotient (<<>> is nullptr)
  non_trivial_classes,     \* _non_trivial_classes (<<>> is nullptr)
  started,                 \* Runner::started()
  finished,                \* Runner::finished()
  stopped,                 \* Runner::stopped() for a reason other than finished
  call                     \* the last call: arguments, outcome, hooks invoked

config == <<type, nr_gens, gen_pairs, parent>>
cache  == <<init_ntc_done, is_obviously_finite, is_obviously_infinite,
            quotient, non_trivial_classes>>
runner == <<started, finished, stopped>>
vars   == <<type, nr_gens, gen_pairs, parent, parent_finished, init_ntc_done,
            is_obviously_finite, is_obviously_infinite, quotient,
            non_trivial_classes, started, finished, stopped, call>>

\* ------------------------------------------------------------------ values
Null == <<>>

Kinds == {"twosided", "left", "right"}

\* Letters include MaxGens, which is out of range for every generator count.
Letters == 0 .. MaxGens

\* The word arguments: the empty word and the words of one letter.
Words == {<<>>} \cup {<<a>> : a \in Letters}

\* The words of two letters, passed to validate_word only.
LongWords == {<<a, b>> : a, b \in Letters}

ClassIndices == 0 .. (MaxClasses - 1)

\* The exception messages of the LIBSEMIGROUPS_EXCEPTION sites.
NoError           == ""
ErrRunNoGens      == "no generators have been set!"
ErrChangeGens     == "cannot change the number of generators"
ErrZeroGens       == "the number of generators must be non-zero!"
ErrSetGensStage   == "cannot set the number of generator at this stage"
ErrAddPairStage   == "cannot add further generating pairs at this stage"
ErrNoGensDefined  == "no generators have been defined"
ErrNotTwoSided    == "the congruence must be two-sided"
ErrInfinite       == "cannot find the quotient semigroup, it is infinite"
ErrNoParent       == "there's no parent semigroup in which to find the non-trivial classes"
ErrLetter         == "letter index out of bounds"
ErrHook           == "exception thrown by a hook"
ErrLength         == "std::length_error"

\* The two error kinds of the specification (section 7).
InvalidArgument == {ErrZeroGens, ErrLetter}
InvalidState    == {ErrRunNoGens, ErrChangeGens, ErrSetGensStage,
                    ErrAddPairStage, ErrNoGensDefined, ErrNotTwoSided,
                    ErrInfinite, ErrNoParent}

\* A call record; the fields an operation does not use keep these values.
Call(op) ==
  [op       |-> op,
   n        |-> 0,          \* the size_t argument
   u        |-> <<>>,       \* the first word argument
   v        |-> <<>>,       \* the second word argument
   err      |-> NoError,    \* the message of the exception thrown, if any
   range_hi |-> 0,          \* the first %d of the out-of-bounds message
   got      |-> 0,          \* the second %d of the out-of-bounds message
   ret      |-> "void",     \* the value returned, when it is not an index
   idx      |-> 0,          \* the index returned
   uu       |-> 0,          \* const_contains: the class index found for u
   vv       |-> 0,          \* const_contains: the class index found for v
   hook_threw |-> FALSE,   \* a hook threw during the call
   hook_idx |-> 0,          \* the index returned by the hook, if it was called
   hook_ans |-> "none",     \* the answer of the heuristic hook, if it was called
   cls      |-> <<>>,       \* the class index found for each parent position
   trace    |-> <<>>]       \* the hooks and helpers invoked, in order

Throw(c, exc) ==
  [c EXCEPT !.err = exc.msg, !.range_hi = exc.range_hi, !.got = exc.got]

Exc(msg) == [msg |-> msg, range_hi |-> 0, got |-> 0]

NoExc == Exc(NoError)

\* ------------------------------------------------------------ the parent
\* A parent FroidurePin: the cyclic group Z_modulus, generator i being the
\* residue (i + 1) % modulus.
Parents == [nr_generators : 1 .. MaxGens, modulus : 1 .. MaxModulus]

RECURSIVE LetterSum(_)
LetterSum(w) == IF w = <<>> THEN 0 ELSE (Head(w) + 1) + LetterSum(Tail(w))

parent_equal_to(p, u, v) == LetterSum(u) % p.modulus = LetterSum(v) % p.modulus

parent_size(p) == p.modulus

\* A word for the element at position pos: generator 0 to the power pos + 1.
parent_factorisation(p, pos) == [i \in 1 .. (pos + 1) |-> 0]

has_parent_froidure_pin == parent # Null

has_quotient_froidure_pin == quotient # Null

\* -------------------------------------------------------------- validation
\* Mutant of validate_letter: the letter _nr_gens is accepted (the test of
\* line 312 is c <= _nr_gens).
validate_letter_inclusive(c) ==
  IF nr_gens = UNDEFINED
    THEN [threw |-> TRUE, val |-> FALSE]
    ELSE [threw |-> FALSE, val |-> c <= nr_gens]

validate_letter(c) ==
  IF nr_gens = UNDEFINED
    THEN [threw |-> TRUE, val |-> FALSE]
    ELSE [threw |-> FALSE, val |-> c < nr_gens]

RECURSIVE validate_word_from(_, _)
validate_word_from(w, i) ==
  IF i > Len(w) THEN NoExc
  ELSE LET r == validate_letter(w[i]) IN
       IF r.threw THEN Exc(ErrNoGensDefined)
       ELSE IF ~r.val
         THEN [msg |-> ErrLetter, range_hi |-> w[i], got |-> nr_gens]
         ELSE validate_word_from(w, i + 1)

validate_word(w) == validate_word_from(w, 1)

\* validate_word called on its own, as the derived classes call it.
call_validate_word(w) ==
  /\ call' = Throw([Call("validate_word") EXCEPT !.u = w], validate_word(w))
  /\ UNCHANGED <<config, parent_finished, cache, runner>>

\* ------------------------------------------------------------------- reset
\* Mutant of reset: the quotient is kept (line 299 is lost).
reset_keeps_quotient ==
  /\ finished' = FALSE
  /\ non_trivial_classes' = Null
  /\ init_ntc_done' = FALSE
  /\ quotient' = quotient
  /\ is_obviously_finite' = FALSE
  /\ is_obviously_infinite' = FALSE

\* Mutant of reset: the done flag is kept (line 298 is lost).
reset_keeps_ntc_done ==
  /\ finished' = FALSE
  /\ non_trivial_classes' = Null
  /\ init_ntc_done' = init_ntc_done
  /\ quotient' = Null
  /\ is_obviously_finite' = FALSE
  /\ is_obviously_infinite' = FALSE

reset ==
  /\ finished' = FALSE
  /\ non_trivial_classes' = Null
  /\ init_ntc_done' = FALSE
  /\ quotient' = Null
  /\ is_obviously_finite' = FALSE
  /\ is_obviously_infinite' = FALSE

\* ------------------------------------------------------------- constructor
Init ==
  /\ type \in Kinds
  /\ nr_gens = UNDEFINED
  /\ gen_pairs = <<>>
  /\ parent = Null
  /\ parent_finished = FALSE
  /\ init_ntc_done = FALSE
  /\ is_obviously_finite = FALSE
  /\ is_obviously_infinite = FALSE
  /\ quotient = Null
  /\ non_trivial_classes = Null
  /\ started = FALSE
  /\ finished = FALSE
  /\ stopped = FALSE
  /\ call = [Call("construct") EXCEPT !.trace = <<"reset">>]

\* ------------------------------------------------------- set_nr_generators
\* Mutants of set_nr_generators_outcome: the count is overwritten when it
\* differs (the check of line 98 is lost); the same count is applied again
\* (the early return of line 101 is lost); zero is accepted (the check of
\* line 103 is lost).
set_nr_generators_outcome_overwrite(n) ==
  IF nr_gens # UNDEFINED /\ nr_gens = n THEN "return"
  ELSE IF n = 0 THEN ErrZeroGens
  ELSE IF started THEN ErrSetGensStage
  ELSE "proceed"

set_nr_generators_outcome_reapply(n) ==
  IF nr_gens # UNDEFINED /\ nr_gens # n THEN ErrChangeGens
  ELSE IF n = 0 THEN ErrZeroGens
  ELSE IF started THEN ErrSetGensStage
  ELSE "proceed"

set_nr_generators_outcome_zero(n) ==
  IF nr_gens # UNDEFINED
    THEN IF nr_gens # n THEN ErrChangeGens ELSE "return"
    ELSE IF started THEN ErrSetGensStage
    ELSE "proceed"

set_nr_generators_outcome(n) ==
  IF nr_gens # UNDEFINED
    THEN IF nr_gens # n THEN ErrChangeGens ELSE "return"
    ELSE IF n = 0 THEN ErrZeroGens
    ELSE IF started THEN ErrSetGensStage
    ELSE "proceed"

set_nr_generators(n) ==
  LET o == set_nr_generators_outcome(n)
      c == [Call("set_nr_generators") EXCEPT !.n = n]
  IN  CASE o = "proceed" ->
             /\ nr_gens' = n
             /\ reset
             /\ call' = [c EXCEPT !.trace = <<"set_nr_generators_impl", "reset">>]
             /\ UNCHANGED <<type, gen_pairs, parent, parent_finished, started, stopped>>
        [] o = "return" ->
             /\ call' = c
             /\ UNCHANGED <<config, parent_finished, cache, runner>>
        [] OTHER ->
             /\ call' = Throw(c, Exc(o))
             /\ UNCHANGED <<config, parent_finished, cache, runner>>

\* ---------------------------------------------------------------- add_pair
\* Mutants of add_pair_outcome: the started() check of line 119 is lost; the
\* parent's equality test of lines 127-128 is lost.
add_pair_outcome_any_stage(u, v) ==
  IF validate_word(u).msg # NoError
    THEN [do |-> "throw", exc |-> validate_word(u)]
  ELSE IF validate_word(v).msg # NoError
    THEN [do |-> "throw", exc |-> validate_word(v)]
  ELSE IF u = v THEN [do |-> "return", exc |-> NoExc]
  ELSE IF has_parent_froidure_pin /\ parent_equal_to(parent[1], u, v)
    THEN [do |-> "return", exc |-> NoExc]
  ELSE [do |-> "append", exc |-> NoExc]

add_pair_outcome_no_parent_test(u, v) ==
  IF started THEN [do |-> "throw", exc |-> Exc(ErrAddPairStage)]
  ELSE IF validate_word(u).msg # NoError
    THEN [do |-> "throw", exc |-> validate_word(u)]
  ELSE IF validate_word(v).msg # NoError
    THEN [do |-> "throw", exc |-> validate_word(v)]
  ELSE IF u = v THEN [do |-> "return", exc |-> NoExc]
  ELSE [do |-> "append", exc |-> NoExc]

\* Mutant of add_pair_outcome: a pair of identical words is not returned
\* for (the test of line 125 is lost).
add_pair_outcome_no_equal_test(u, v) ==
  IF started THEN [do |-> "throw", exc |-> Exc(ErrAddPairStage)]
  ELSE IF validate_word(u).msg # NoError
    THEN [do |-> "throw", exc |-> validate_word(u)]
  ELSE IF validate_word(v).msg # NoError
    THEN [do |-> "throw", exc |-> validate_word(v)]
  ELSE IF has_parent_froidure_pin /\ parent_equal_to(parent[1], u, v)
    THEN [do |-> "return", exc |-> NoExc]
  ELSE [do |-> "append", exc |-> NoExc]

add_pair_outcome(u, v) ==
  IF started THEN [do |-> "throw", exc |-> Exc(ErrAddPairStage)]
  ELSE IF validate_word(u).msg # NoError
    THEN [do |-> "throw", exc |-> validate_word(u)]
  ELSE IF validate_word(v).msg # NoError
    THEN [do |-> "throw", exc |-> validate_word(v)]
  ELSE IF u = v THEN [do |-> "return", exc |-> NoExc]
  ELSE IF has_parent_froidure_pin /\ parent_equal_to(parent[1], u, v)
    THEN [do |-> "return", exc |-> NoExc]
  ELSE [do |-> "append", exc |-> NoExc]

add_pair(u, v) ==
  LET o == add_pair_outcome(u, v)
      c == [Call("add_pair") EXCEPT !.u = u, !.v = v]
  IN  CASE o.do = "append" ->
             /\ Len(gen_pairs) < MaxPairs
             /\ gen_pairs' = Append(gen_pairs, <<u, v>>)
             /\ reset
             /\ call' = [c EXCEPT !.trace = <<"add_pair_impl", "reset">>]
             /\ UNCHANGED <<type, nr_gens, parent, parent_finished, started, stopped>>
        [] o.do = "return" ->
             /\ call' = c
             /\ UNCHANGED <<config, parent_finished, cache, runner>>
        [] OTHER ->
             /\ call' = Throw(c, o.exc)
             /\ UNCHANGED <<config, parent_finished, cache, runner>>

\* -------------------------------------------------- set_parent_froidure_pin
\* The four LIBSEMIGROUPS_ASSERTs are the caller's obligations.
\* Mutant of set_parent_froidure_pin_pre: a parent over another number of
\* generators is accepted (the assertion of lines 228-229 is lost).
set_parent_froidure_pin_pre_any_count(prnt) ==
  /\ parent = Null
  /\ ~started
  /\ ~finished

set_parent_froidure_pin_pre(prnt) ==
  /\ parent = Null
  /\ nr_gens = UNDEFINED \/ prnt.nr_generators = nr_gens
  /\ ~started
  /\ ~finished

set_parent_froidure_pin(prnt, fin) ==
  /\ set_parent_froidure_pin_pre(prnt)
  /\ parent_finished' = fin
  /\ nr_gens' = IF nr_gens = UNDEFINED THEN prnt.nr_generators ELSE nr_gens
  /\ parent' = <<prnt>>
  /\ reset
  /\ call' = [Call("set_parent_froidure_pin") EXCEPT
                !.n = prnt.nr_generators,
                !.trace = IF nr_gens = UNDEFINED
                            THEN <<"set_nr_generators_impl", "reset", "reset">>
                            ELSE <<"reset">>]
  /\ UNCHANGED <<type, gen_pairs, started, stopped>>

\* --------------------------------------------------------------------- run
\* How a run of the algorithm ends: finished, or stopped before finishing.
RunOutcomes ==
  {[started |-> TRUE, finished |-> TRUE,  stopped |-> FALSE],
   [started |-> TRUE, finished |-> FALSE, stopped |-> TRUE]}

\* A hook that is permitted to run the algorithm on demand either leaves the
\* runner alone or goes through run().
HookRunOutcomes ==
  {[started |-> started, finished |-> finished, stopped |-> stopped]}
    \cup (IF nr_gens # UNDEFINED /\ ~finished THEN RunOutcomes ELSE {})

SetRunner(o) ==
  /\ started' = o.started
  /\ finished' = o.finished
  /\ stopped' = o.stopped

\* Mutant of run_outcome: a finished computation is run again (the test of
\* line 56 is lost).
run_outcome_ignores_finished ==
  IF nr_gens = UNDEFINED THEN ErrRunNoGens
  ELSE IF stopped THEN "clear_stoppage"
  ELSE "run_impl"

run_outcome ==
  IF nr_gens = UNDEFINED THEN ErrRunNoGens
  ELSE IF finished THEN "return"
  ELSE IF stopped THEN "clear_stoppage"
  ELSE "run_impl"

run ==
  LET o == run_outcome
      c == Call("run")
  IN  CASE o = "run_impl" ->
             /\ \E r \in RunOutcomes : SetRunner(r)
             /\ call' = [c EXCEPT !.trace = <<"run_impl">>]
             /\ UNCHANGED <<config, parent_finished, cache>>
        [] o = "clear_stoppage" ->
             /\ \E r \in RunOutcomes : SetRunner(r)
             /\ call' = [c EXCEPT !.trace = <<"clear_stoppage", "run_impl">>]
             /\ UNCHANGED <<config, parent_finished, cache>>
        [] o = "return" ->
             /\ call' = c
             /\ UNCHANGED <<config, parent_finished, cache, runner>>
        [] OTHER ->
             /\ call' = Throw(c, Exc(o))
             /\ UNCHANGED <<config, parent_finished, cache, runner>>

\* ---------------------------------------------------------- const_contains
\* What const_word_to_class_index can do: throw, or return an index or
\* UNDEFINED (the default implementation returns UNDEFINED).
LookupResults ==
  {[threw |-> TRUE, idx |-> UNDEFINED]}
    \cup {[threw |-> FALSE, idx |-> i] : i \in ClassIndices \cup {UNDEFINED}}

\* The lookup that is not made.
NoLookup == [threw |-> FALSE, idx |-> UNDEFINED]

\* Mutant of const_contains_result: distinct indices give FALSE whether or
\* not the computation is finished (the test of line 89 is lost).
const_contains_result_eager(u, v, ru, rv) ==
  IF u = v THEN "TRUE"
  ELSE IF ru.threw \/ rv.threw THEN "unknown"
  ELSE IF ru.idx = UNDEFINED \/ rv.idx = UNDEFINED THEN "unknown"
  ELSE IF ru.idx = rv.idx THEN "TRUE"
  ELSE "FALSE"

\* The tril returned once both words are validated; ru and rv are what the
\* lookup hook does for u and for v.
const_contains_result(u, v, ru, rv) ==
  IF u = v THEN "TRUE"
  ELSE IF ru.threw \/ rv.threw THEN "unknown"
  ELSE IF ru.idx = UNDEFINED \/ rv.idx = UNDEFINED THEN "unknown"
  ELSE IF ru.idx = rv.idx THEN "TRUE"
  ELSE IF finished THEN "FALSE"
  ELSE "unknown"

const_contains_trace(u, v, ru, rv) ==
  IF u = v THEN <<>>
  ELSE IF ru.threw THEN <<"const_word_to_class_index">>
  ELSE <<"const_word_to_class_index", "const_word_to_class_index">>

const_contains(u, v) ==
  LET c == [Call("const_contains") EXCEPT !.u = u, !.v = v] IN
  /\ UNCHANGED <<config, parent_finished, cache, runner>>
  /\ IF validate_word(u).msg # NoError THEN call' = Throw(c, validate_word(u))
     ELSE IF validate_word(v).msg # NoError THEN call' = Throw(c, validate_word(v))
     ELSE \E ru \in (IF u = v THEN {NoLookup} ELSE LookupResults) :
          \E rv \in (IF u = v \/ ru.threw THEN {NoLookup} ELSE LookupResults) :
            call' = [c EXCEPT
                       !.ret = const_contains_result(u, v, ru, rv),
                       !.uu = ru.idx,
                       !.vv = rv.idx,
                       !.err = NoError,
                       !.trace = const_contains_trace(u, v, ru, rv),
                       !.hook_threw = u # v /\ (ru.threw \/ rv.threw)]

\* ----------------------------------------------------- word_to_class_index
word_to_class_index(w) ==
  LET c == [Call("word_to_class_index") EXCEPT !.u = w] IN
  IF validate_word(w).msg # NoError
    THEN /\ call' = Throw(c, validate_word(w))
         /\ UNCHANGED <<config, parent_finished, cache, runner>>
    ELSE \* word_to_class_index_impl: may run, then returns or throws
         /\ \E r \in HookRunOutcomes : SetRunner(r)
         /\ \E res \in LookupResults :
              call' = [c EXCEPT
                         !.idx = res.idx,
                         !.err = IF res.threw THEN ErrHook ELSE NoError,
                         !.hook_threw = res.threw,
                         !.trace = <<"word_to_class_index_impl">>]
         /\ UNCHANGED <<config, parent_finished, cache>>

\* ------------------------------------------ is_quotient_obviously_infinite
\* TRUE when none of the three early returns is taken, so that the answer is
\* left to is_quotient_obviously_infinite_impl.
is_quotient_obviously_infinite_asks_hook ==
  /\ nr_gens # UNDEFINED
  /\ ~(has_quotient_froidure_pin /\ quotient[1].finished)
  /\ ~(has_parent_froidure_pin /\ parent_finished)

\* The answers the hook can give where it is asked.
InfiniteHookAnswers ==
  IF is_quotient_obviously_infinite_asks_hook THEN BOOLEAN ELSE {FALSE}

\* The value returned, h being the hook's answer.
is_quotient_obviously_infinite(h) ==
  IF nr_gens = UNDEFINED THEN FALSE
  ELSE IF has_quotient_froidure_pin /\ quotient[1].finished THEN FALSE
  ELSE IF has_parent_froidure_pin /\ parent_finished THEN FALSE
  ELSE IF h THEN TRUE
  ELSE FALSE

is_quotient_obviously_infinite_trace ==
  IF is_quotient_obviously_infinite_asks_hook
    THEN <<"is_quotient_obviously_infinite_impl">>
    ELSE <<>>

\* A bool as the call record holds it.
BoolStr(b) == IF b THEN "TRUE" ELSE "FALSE"

\* What the heuristic hook answered, where the trace t shows it was asked.
HookAnswer(t, h) == IF t = <<>> THEN "none" ELSE BoolStr(h)

\* is_quotient_obviously_infinite called on its own; h is what the hook
\* answers if it is asked.
call_is_quotient_obviously_infinite ==
  \E h \in BOOLEAN :
    /\ call' = [Call("is_quotient_obviously_infinite") EXCEPT
                  !.ret = BoolStr(is_quotient_obviously_infinite(h)),
                  !.hook_ans = HookAnswer(is_quotient_obviously_infinite_trace, h),
                  !.trace = is_quotient_obviously_infinite_trace]
    /\ UNCHANGED <<config, parent_finished, cache, runner>>

\* -------------------------------------------- is_quotient_obviously_finite
\* Mutant of is_quotient_obviously_finite: the parent is not looked at (the
\* second disjunct of line 198 is lost).
is_quotient_obviously_finite_no_parent(g) ==
  IF (has_quotient_froidure_pin /\ quotient[1].finished) \/ g
    THEN TRUE
    ELSE FALSE

\* The value returned, g being the answer of is_quotient_obviously_finite_impl.
is_quotient_obviously_finite(g) ==
  IF (has_quotient_froidure_pin /\ quotient[1].finished)
       \/ (has_parent_froidure_pin /\ parent_finished)
       \/ g
    THEN TRUE
    ELSE FALSE

\* The hook is the last operand of ||: it is asked when the first two are
\* false.
is_quotient_obviously_finite_trace ==
  IF (has_quotient_froidure_pin /\ quotient[1].finished)
       \/ (has_parent_froidure_pin /\ parent_finished)
    THEN <<>>
    ELSE <<"is_quotient_obviously_finite_impl">>

call_is_quotient_obviously_finite ==
  \E g \in BOOLEAN :
    /\ call' = [Call("is_quotient_obviously_finite") EXCEPT
                  !.ret = BoolStr(is_quotient_obviously_finite(g)),
                  !.hook_ans = HookAnswer(is_quotient_obviously_finite_trace, g),
                  !.trace = is_quotient_obviously_finite_trace]
    /\ UNCHANGED <<config, parent_finished, cache, runner>>

\* -------------------------------------------------------------- nr_classes
\* What nr_classes_impl can return: a number of classes, or that there are
\* infinitely many.
NrClassesResults == (1 .. MaxClasses) \cup {POSITIVE_INFINITY}

\* Mutant of nr_classes_outcome: the heuristic is consulted whether or not
\* the computation is finished (the !finished() of line 208 is lost).
nr_classes_outcome_finished_too(h) ==
  IF nr_gens = UNDEFINED THEN "UNDEFINED"
  ELSE IF is_quotient_obviously_infinite(h) THEN "POSITIVE_INFINITY"
  ELSE "nr_classes_impl"

\* h is the answer of the infinite heuristic, which is not consulted when
\* finished() holds.
nr_classes_outcome(h) ==
  IF nr_gens = UNDEFINED THEN "UNDEFINED"
  ELSE IF ~finished /\ is_quotient_obviously_infinite(h) THEN "POSITIVE_INFINITY"
  ELSE "nr_classes_impl"

\* The hooks nr_classes reaches before its own hook.
nr_classes_trace ==
  IF nr_gens = UNDEFINED \/ finished
    THEN <<>>
    ELSE is_quotient_obviously_infinite_trace

nr_classes ==
  \E h \in BOOLEAN :
    LET o == nr_classes_outcome(h)
        c == [Call("nr_classes") EXCEPT
                !.hook_ans = HookAnswer(nr_classes_trace, h)]
    IN  CASE o = "nr_classes_impl" ->
               \* the hook may run the computation, then returns
               /\ \E r \in HookRunOutcomes : SetRunner(r)
               /\ \E k \in NrClassesResults :
                    call' = [c EXCEPT
                               !.idx = k,
                               !.hook_idx = k,
                               !.trace = nr_classes_trace \o <<"nr_classes_impl">>]
               /\ UNCHANGED <<config, parent_finished, cache>>
          [] o = "POSITIVE_INFINITY" ->
               /\ call' = [c EXCEPT
                             !.idx = POSITIVE_INFINITY,
                             !.trace = nr_classes_trace]
               /\ UNCHANGED <<config, parent_finished, cache, runner>>
          [] OTHER ->
               /\ call' = [c EXCEPT !.idx = UNDEFINED]
               /\ UNCHANGED <<config, parent_finished, cache, runner>>

\* --------------------------------------------------- quotient_froidure_pin
\* What quotient_impl can do: throw, or return a new FroidurePin that is
\* fully enumerated or not.
QuotientResults ==
  {[threw |-> TRUE, finished |-> FALSE]}
    \cup {[threw |-> FALSE, finished |-> f] : f \in BOOLEAN}

\* Mutant of quotient_impl_throws: _quotient is written before the hook has
\* returned.
quotient_impl_throws_after_write ==
  /\ quotient' = <<[finished |-> FALSE, immutable |-> FALSE]>>
  /\ UNCHANGED <<config, parent_finished, init_ntc_done, is_obviously_finite,
                 is_obviously_infinite, non_trivial_classes, runner>>

\* The state when quotient_impl throws: the assignment to _quotient is not
\* made, and nothing else was written before it.
quotient_impl_throws == UNCHANGED <<config, parent_finished, cache, runner>>

\* Mutant of quotient_froidure_pin_outcome: the kind is not checked (the
\* test of line 157 is lost).
quotient_froidure_pin_outcome_any_kind(h, q) ==
  IF quotient # Null THEN "cached"
  ELSE IF is_quotient_obviously_infinite(h) THEN ErrInfinite
  ELSE IF q.threw THEN ErrHook
  ELSE "construct"

\* Mutant of quotient_froidure_pin_outcome: the cached quotient is not
\* looked for (the test of line 154 is lost).
quotient_froidure_pin_outcome_no_cache(h, q) ==
  IF type # "twosided" THEN ErrNotTwoSided
  ELSE IF is_quotient_obviously_infinite(h) THEN ErrInfinite
  ELSE IF q.threw THEN ErrHook
  ELSE "construct"

\* h is the answer of the infinite heuristic, q what quotient_impl does.
quotient_froidure_pin_outcome(h, q) ==
  IF quotient # Null THEN "cached"
  ELSE IF type # "twosided" THEN ErrNotTwoSided
  ELSE IF is_quotient_obviously_infinite(h) THEN ErrInfinite
  ELSE IF q.threw THEN ErrHook
  ELSE "construct"

quotient_froidure_pin ==
  \E h \in InfiniteHookAnswers, q \in QuotientResults :
    LET o == quotient_froidure_pin_outcome(h, q)
        c == Call("quotient_froidure_pin")
    IN  CASE o = "construct" ->
               /\ \E r \in HookRunOutcomes : SetRunner(r)
               /\ quotient' = <<[finished |-> q.finished, immutable |-> TRUE]>>
               /\ call' = [c EXCEPT
                             !.ret = "quotient",
                             !.trace = is_quotient_obviously_infinite_trace
                                         \o <<"quotient_impl">>]
               /\ UNCHANGED <<config, parent_finished, init_ntc_done,
                              is_obviously_finite, is_obviously_infinite,
                              non_trivial_classes>>
          [] o = "cached" ->
               /\ call' = [c EXCEPT !.ret = "quotient"]
               /\ UNCHANGED <<config, parent_finished, cache, runner>>
          [] o = ErrHook ->
               /\ call' = [c EXCEPT
                             !.err = ErrHook,
                             !.hook_threw = TRUE,
                             !.trace = is_quotient_obviously_infinite_trace
                                         \o <<"quotient_impl">>]
               /\ quotient_impl_throws
          [] o = ErrInfinite ->
               /\ call' = [c EXCEPT
                             !.err = ErrInfinite,
                             !.trace = is_quotient_obviously_infinite_trace]
               /\ UNCHANGED <<config, parent_finished, cache, runner>>
          [] OTHER ->
               /\ call' = Throw(c, Exc(o))
               /\ UNCHANGED <<config, parent_finished, cache, runner>>

\* ------------------------------------------------ non_trivial_classes_impl
\* The positions 0 .. size - 1 of the parent whose class index is i, in
\* increasing order, as the words the parent factorises them into.
RECURSIVE klass(_, _, _, _)
klass(p, cls, i, pos) ==
  IF pos >= parent_size(p) THEN <<>>
  ELSE (IF cls[pos] = i THEN <<parent_factorisation(p, pos)>> ELSE <<>>)
         \o klass(p, cls, i, pos + 1)

\* Mutant of non_trivial_classes_impl: only the empty classes are erased
\* (the test of line 278 is klass.size() < 1).
non_trivial_classes_impl_keeps_singletons(p, nr, cls) ==
  LET ntc == [i \in 1 .. nr |-> klass(p, cls, i - 1, 0)]
  IN  SelectSeq(ntc, LAMBDA k : ~(Len(k) < 1))

\* The table of nr classes after the loop, then with the classes of at most
\* one word erased.
non_trivial_classes_impl(p, nr, cls) ==
  LET ntc == [i \in 1 .. nr |-> klass(p, cls, i - 1, 0)]
  IN  SelectSeq(ntc, LAMBDA k : ~(Len(k) <= 1))

\* ------------------------------------------------ init_non_trivial_classes
init_non_trivial_classes ==
  LET c == Call("init_non_trivial_classes") IN
  IF init_ntc_done
    THEN /\ call' = c
         /\ UNCHANGED <<config, parent_finished, cache, runner>>
  ELSE IF parent = Null
    THEN /\ call' = Throw(c, Exc(ErrNoParent))
         /\ UNCHANGED <<config, parent_finished, cache, runner>>
  ELSE \E h \in BOOLEAN :
       LET cc == [c EXCEPT !.hook_ans = HookAnswer(nr_classes_trace, h)] IN
       IF nr_classes_outcome(h) # "nr_classes_impl"
         THEN \* nr_classes() is POSITIVE_INFINITY: the table cannot be made
              /\ call' = [cc EXCEPT
                            !.err = ErrLength,
                            !.idx = POSITIVE_INFINITY,
                            !.trace = nr_classes_trace]
              /\ UNCHANGED <<config, parent_finished, cache, runner>>
         ELSE \E nr \in NrClassesResults :
              IF nr = POSITIVE_INFINITY
                THEN \* the same, nr_classes_impl having been called
                     /\ \E r \in HookRunOutcomes : SetRunner(r)
                     /\ call' = [cc EXCEPT
                                   !.err = ErrLength,
                                   !.idx = POSITIVE_INFINITY,
                                   !.hook_idx = nr,
                                   !.trace = nr_classes_trace
                                               \o <<"nr_classes_impl">>]
                     /\ UNCHANGED <<config, parent_finished, cache>>
                ELSE \E cls \in [0 .. (parent_size(parent[1]) - 1)
                                   -> 0 .. (nr - 1)] :
                       /\ \E r \in HookRunOutcomes : SetRunner(r)
                       /\ parent_finished' = TRUE
                       /\ non_trivial_classes' =
                            <<non_trivial_classes_impl(parent[1], nr, cls)>>
                       /\ init_ntc_done' = TRUE
                       /\ call' = [cc EXCEPT
                                     !.idx = nr,
                                     !.hook_idx = nr,
                                     !.cls = [pos \in 1 .. parent_size(parent[1])
                                                |-> cls[pos - 1]],
                                     !.trace = nr_classes_trace
                                                 \o <<"nr_classes_impl",
                                                      "word_to_class_index_impl">>]
                       /\ UNCHANGED <<config, is_obviously_finite,
                                      is_obviously_infinite, quotient>>

Next ==
  \/ \E n \in 0 .. MaxGens : set_nr_generators(n)
  \/ \E u, v \in Words : add_pair(u, v)
  \/ \E prnt \in Parents, fin \in BOOLEAN : set_parent_froidure_pin(prnt, fin)
  \/ run
  \/ \E u, v \in Words : const_contains(u, v)
  \/ \E w \in Words : word_to_class_index(w)
  \/ quotient_froidure_pin
  \/ init_non_trivial_classes
  \/ nr_classes
  \/ call_is_quotient_obviously_infinite
  \/ call_is_quotient_obviously_finite
  \/ \E w \in Words \cup LongWords : call_validate_word(w)

Spec == Init /\ [][Next]_vars

\* ================================================================== claims
Mutators == {"set_nr_generators", "add_pair", "set_parent_froidure_pin"}

WordOps == {"add_pair", "const_contains", "word_to_class_index"}

CachesCleared ==
  /\ quotient = Null
  /\ non_trivial_classes = Null
  /\ ~init_ntc_done
  /\ ~finished

\* Every letter of w is below the generator count, which is defined.
WellFormed(w) ==
  /\ nr_gens # UNDEFINED
  /\ \A i \in 1 .. Len(w) : w[i] < nr_gens

\* C1: once the generator count has a defined value it has that value in
\* every later state, whatever call is made.
C1_GeneratorCountNeverChanges ==
  [][nr_gens # UNDEFINED => nr_gens' = nr_gens]_vars

\* C1 witness: the count is fixed and a call asking for another non-zero
\* count has been made.
C1_Witness ==
  /\ call.op = "set_nr_generators"
  /\ nr_gens # UNDEFINED
  /\ call.n # 0
  /\ call.n # nr_gens

\* C2: once started, no call changes the generator count, the pairs or the
\* parent reference; every add_pair call, and every set_nr_generators call
\* with a count other than the fixed one, fails with an invalid-state error
\* and leaves the whole state as it was.
C2_StartedFreezesConfiguration ==
  [][started =>
       /\ config' = config
       /\ call'.op = "add_pair" =>
            /\ call'.err \in InvalidState
            /\ UNCHANGED <<parent_finished, cache, runner>>
       /\ (call'.op = "set_nr_generators" /\ call'.n # nr_gens) =>
            /\ call'.err \in InvalidState
            /\ UNCHANGED <<parent_finished, cache, runner>>]_vars

\* C2 witness: started, and add_pair has refused two distinct well-formed
\* words it would otherwise have appended.
C2_Witness ==
  /\ started
  /\ call.op = "add_pair"
  /\ call.err = ErrAddPairStage
  /\ call.u # call.v
  /\ WellFormed(call.u) /\ WellFormed(call.v)
  /\ gen_pairs = <<>>

\* C3 as stated: after any successful mutator call, the no-ops included, the
\* quotient cache and the non-trivial-classes cache are empty and the done
\* and finished flags are false.
C3_Original ==
  (call.op \in Mutators /\ call.err = NoError) => CachesCleared

\* C3 amended: after a successful mutator call that changes the
\* configuration (fixes the count, appends a pair or attaches the parent) the
\* caches are empty and the done and finished flags are false.
C3_MutationClearsCaches ==
  [][(call'.op \in Mutators /\ call'.err = NoError /\ config' # config)
       => CachesCleared']_vars

\* C3 witness: a pair has just been appended to a congruence with a parent.
C3_Witness ==
  /\ call.op = "add_pair"
  /\ call.err = NoError
  /\ call.trace # <<>>
  /\ gen_pairs # <<>>
  /\ parent # Null

\* C4: with the count fixed to n > 0, set_nr_generators(n) succeeds, invokes
\* no hook, makes no reset and changes nothing, and set_nr_generators(m),
\* m # n, fails with an invalid-state error and leaves the count at n.
C4_SetSameCountIsNoOp ==
  [][(nr_gens # UNDEFINED /\ call'.op = "set_nr_generators") =>
       IF call'.n = nr_gens
         THEN /\ call'.err = NoError
              /\ call'.trace = <<>>
              /\ UNCHANGED <<config, parent_finished, cache, runner>>
         ELSE /\ call'.err \in InvalidState
              /\ nr_gens' = nr_gens]_vars

\* C4 witness: the fixed count has been set again while a quotient is cached.
C4_Witness ==
  /\ call.op = "set_nr_generators"
  /\ call.n = nr_gens
  /\ call.err = NoError
  /\ quotient # Null

\* C5 as stated: set_nr_generators(0) fails with an invalid-argument error in
\* every state.
C5_Original ==
  (call.op = "set_nr_generators" /\ call.n = 0) => call.err \in InvalidArgument

\* C5 amended: set_nr_generators(0) fails in every state and leaves the count
\* as it was: with the invalid-argument error when the count is undefined,
\* with the invalid-state error "cannot change the number of generators" when
\* the count is fixed.
C5_SetZeroAlwaysFails ==
  (call.op = "set_nr_generators" /\ call.n = 0) =>
    /\ nr_gens # 0
    /\ nr_gens = UNDEFINED => call.err = ErrZeroGens /\ call.err \in InvalidArgument
    /\ nr_gens # UNDEFINED => call.err = ErrChangeGens /\ call.err \in InvalidState

\* C5 witness: zero has been refused with the count already fixed.
C5_Witness ==
  /\ call.op = "set_nr_generators"
  /\ call.n = 0
  /\ nr_gens # UNDEFINED
  /\ call.err = ErrChangeGens

\* The pairs add_pair treats as already equal.
KnownEqual(u, v) ==
  \/ u = v
  \/ parent # Null /\ parent_equal_to(parent[1], u, v)

\* add_pair gets past validate_word for w: no letter of w is rejected.
Accepted(w) == w = <<>> \/ WellFormed(w)

\* C6 as stated: add_pair(u, v) with u = v, or with u and v equal in the
\* parent, raises no error and has no effect, in every state.
C6_Original ==
  (call.op = "add_pair" /\ KnownEqual(call.u, call.v)) =>
    /\ call.err = NoError
    /\ call.trace = <<>>

\* C6 amended: add_pair(u, v) with u = v, or with u and v equal in the
\* parent, never appends, invokes no hook and makes no reset, in every state;
\* it raises no error exactly when the entity has not started and
\* validate_word rejects no letter of u or v.
C6_KnownEqualPairIsNoOp ==
  [][(call'.op = "add_pair" /\ KnownEqual(call'.u, call'.v)) =>
       /\ UNCHANGED <<config, parent_finished, cache, runner>>
       /\ call'.trace = <<>>
       /\ call'.err = NoError <=>
            (~started /\ Accepted(call'.u) /\ Accepted(call'.v))]_vars

\* C6 witness: two distinct words the parent holds equal were passed and
\* add_pair returned normally.
C6_Witness ==
  /\ call.op = "add_pair"
  /\ call.err = NoError
  /\ call.u # call.v
  /\ parent # Null
  /\ parent_equal_to(parent[1], call.u, call.v)

\* C7 as stated: with the generator count undefined every word operation
\* fails, for every word, and word_to_class_index does not reach its hook.
C7_Original ==
  (nr_gens = UNDEFINED /\ call.op \in WordOps) =>
    /\ call.err # NoError
    /\ call.op = "word_to_class_index" => call.trace = <<>>

\* C8: on validated words const_contains returns TRUE for u = v without a
\* lookup, unknown when a lookup throws or gives UNDEFINED, TRUE for equal
\* indices, FALSE for distinct indices when finished and unknown otherwise;
\* it never returns FALSE while not finished and it changes no state.
C8_ConstContainsResult ==
  [][call'.op = "const_contains" =>
       /\ UNCHANGED <<config, parent_finished, cache, runner>>
       /\ call'.err = NoError =>
            /\ call'.ret \in {"TRUE", "FALSE", "unknown"}
            /\ call'.u = call'.v => (call'.ret = "TRUE" /\ call'.trace = <<>>)
            /\ (call'.u # call'.v /\ call'.hook_threw) => call'.ret = "unknown"
            /\ (call'.u # call'.v /\ ~call'.hook_threw
                  /\ (call'.uu = UNDEFINED \/ call'.vv = UNDEFINED))
                 => call'.ret = "unknown"
            /\ (call'.u # call'.v /\ ~call'.hook_threw
                  /\ call'.uu # UNDEFINED /\ call'.vv # UNDEFINED)
                 => call'.ret = IF call'.uu = call'.vv THEN "TRUE"
                                ELSE IF finished THEN "FALSE"
                                ELSE "unknown"
            /\ call'.ret = "FALSE" => finished]_vars

\* C8 witness: finished, and const_contains has returned FALSE.
C8_Witness ==
  /\ call.op = "const_contains"
  /\ call.ret = "FALSE"
  /\ finished

\* C9: quotient_froidure_pin on a left or right congruence fails with the
\* invalid-state error in every state, and a cached quotient implies that the
\* kind is two-sided.
C9_QuotientOnlyTwoSided ==
  /\ (call.op = "quotient_froidure_pin" /\ type # "twosided") =>
       (call.err = ErrNotTwoSided /\ call.err \in InvalidState)
  /\ quotient # Null => type = "twosided"

\* C9 witness: a one-sided congruence with generators and a pair has been
\* asked for its quotient.
C9_Witness ==
  /\ call.op = "quotient_froidure_pin"
  /\ type # "twosided"
  /\ nr_gens # UNDEFINED
  /\ gen_pairs # <<>>

C10_WitnessInfinite ==
  /\ call.op = "quotient_froidure_pin"
  /\ call.err = ErrInfinite

\* C11: run fails with the invalid-state error and without reaching run_impl
\* when the count is undefined; returns at once, changing nothing, when
\* finished; clears the stoppage and then calls run_impl when stopped; and
\* calls run_impl exactly once in every case that is left.
C11_RunProtocol ==
  [][call'.op = "run" =>
       /\ nr_gens = UNDEFINED =>
            /\ call'.err = ErrRunNoGens
            /\ call'.err \in InvalidState
            /\ call'.trace = <<>>
            /\ UNCHANGED <<config, parent_finished, cache, runner>>
       /\ (nr_gens # UNDEFINED /\ finished) =>
            /\ call'.err = NoError
            /\ call'.trace = <<>>
            /\ UNCHANGED <<config, parent_finished, cache, runner>>
       /\ (nr_gens # UNDEFINED /\ ~finished /\ stopped) =>
            /\ call'.err = NoError
            /\ call'.trace = <<"clear_stoppage", "run_impl">>
       /\ (nr_gens # UNDEFINED /\ ~finished /\ ~stopped) =>
            /\ call'.err = NoError
            /\ call'.trace = <<"run_impl">>]_vars

\* C11 witness: a stopped computation has been run again, the stoppage was
\* cleared first, and the run finished.
C11_Witness ==
  /\ call.op = "run"
  /\ call.trace = <<"clear_stoppage", "run_impl">>
  /\ finished

InTrace(t, name) == \E i \in 1 .. Len(t) : t[i] = name

\* The last hook or helper of the trace t, "" when there is none.
LastCalled(t) == IF t = <<>> THEN "" ELSE t[Len(t)]

\* C12: nr_classes returns UNDEFINED, calling no hook, when the count is
\* undefined; returns POSITIVE_INFINITY when the count is defined, the
\* computation is not finished and the quotient is obviously infinite,
\* without calling nr_classes_impl and without running; returns what
\* nr_classes_impl returns in every other case.  When finished, the
\* heuristic is not consulted, so POSITIVE_INFINITY can only come from
\* nr_classes_impl.
C12_ClassCount ==
  [][call'.op = "nr_classes" =>
       /\ call'.err = NoError
       /\ nr_gens = UNDEFINED =>
            /\ call'.idx = UNDEFINED
            /\ call'.trace = <<>>
       /\ (nr_gens # UNDEFINED /\ ~finished /\ call'.hook_ans = "TRUE") =>
            /\ call'.idx = POSITIVE_INFINITY
            /\ ~InTrace(call'.trace, "nr_classes_impl")
            /\ UNCHANGED <<config, parent_finished, cache, runner>>
       /\ (nr_gens # UNDEFINED /\ (finished \/ call'.hook_ans # "TRUE")) =>
            /\ LastCalled(call'.trace) = "nr_classes_impl"
            /\ call'.idx = call'.hook_idx
       /\ (nr_gens # UNDEFINED /\ finished) =>
            /\ call'.trace = <<"nr_classes_impl">>
            /\ call'.hook_ans = "none"]_vars

\* C12 witness: a two-sided congruence over two generators with no pairs
\* and no parent has been asked for its number of classes, and the answer
\* was POSITIVE_INFINITY without running.
C12_Witness ==
  /\ call.op = "nr_classes"
  /\ call.idx = POSITIVE_INFINITY
  /\ call.hook_ans = "TRUE"
  /\ type = "twosided" /\ nr_gens = 2 /\ gen_pairs = <<>> /\ parent = Null
  /\ ~started

RECURSIVE TotalMembers(_)
TotalMembers(groups) ==
  IF groups = <<>> THEN 0 ELSE Len(Head(groups)) + TotalMembers(Tail(groups))

\* The word at position pos of the parent is a member of group g.
InGroup(groups, g, pos) ==
  \E k \in 1 .. Len(groups[g]) :
    groups[g][k] = parent_factorisation(parent[1], pos)

\* The positions of the parent with the class index of position pos.
ClassOf(pos) ==
  {q \in 0 .. (parent_size(parent[1]) - 1) : call.cls[q + 1] = call.cls[pos + 1]}

\* C13: without a parent the non-trivial classes are never computed (the
\* done flag is false, the cache empty) and init_non_trivial_classes fails
\* with the invalid-state error; with a parent, every group returned has at
\* least two members, every position of the parent is in at most one
\* group, two positions share a group exactly when they have the same
\* class index and that class has at least two positions, and the members
\* of the groups plus the positions alone in their class are parent.size()
\* in number.
C13_NonTrivialClasses ==
  /\ parent = Null => (~init_ntc_done /\ non_trivial_classes = Null)
  /\ (call.op = "init_non_trivial_classes" /\ parent = Null) =>
       (call.err = ErrNoParent /\ call.err \in InvalidState)
  /\ (call.op = "init_non_trivial_classes" /\ call.err = NoError
        /\ call.cls # <<>>) =>
       LET groups    == non_trivial_classes[1]
           positions == 0 .. (parent_size(parent[1]) - 1)
           alone     == {pos \in positions : Cardinality(ClassOf(pos)) = 1}
       IN  /\ \A g \in 1 .. Len(groups) : Len(groups[g]) >= 2
           /\ \A pos \in positions :
                Cardinality({g \in 1 .. Len(groups) : InGroup(groups, g, pos)}) <= 1
           /\ \A pos, q \in positions :
                (\E g \in 1 .. Len(groups) :
                    InGroup(groups, g, pos) /\ InGroup(groups, g, q))
                  <=> (q \in ClassOf(pos) /\ Cardinality(ClassOf(pos)) >= 2)
           /\ TotalMembers(groups) + Cardinality(alone) = parent_size(parent[1])

\* C13 witness: the classes of a parent have been computed, and a group was
\* returned.
C13_Witness ==
  /\ call.op = "init_non_trivial_classes"
  /\ call.err = NoError
  /\ call.cls # <<>>
  /\ non_trivial_classes # Null
  /\ non_trivial_classes[1] # <<>>

\* The letters of w that are not below the generator count.
BadLetters(w) == {i \in 1 .. Len(w) : w[i] >= nr_gens}

\* C14: with the generator count defined, validate_word(w) fails with the
\* invalid-argument error exactly when a letter of w is not below the
\* count, does not fail at all when every letter is below it (the empty
\* word included), and changes no state.
C14_ValidateWord ==
  [][call'.op = "validate_word" =>
       /\ UNCHANGED <<config, parent_finished, cache, runner>>
       /\ nr_gens # UNDEFINED =>
            /\ call'.err \in InvalidArgument <=> BadLetters(call'.u) # {}
            /\ BadLetters(call'.u) = {} => call'.err = NoError]_vars

\* C14 witness: a word of two letters whose first letter is valid and whose
\* second is not has been refused.
C14_Witness ==
  /\ call.op = "validate_word"
  /\ nr_gens # UNDEFINED
  /\ Len(call.u) = 2
  /\ BadLetters(call.u) = {2}
  /\ call.err = ErrLetter

\* C16 as stated: when validate_word fails on a letter out of range, the
\* error is raised for the first such letter of the word, and the message
\* gives that letter as the value found and [0, generator count) as the
\* range.
C16_Original ==
  (call.op = "validate_word" /\ call.err = ErrLetter) =>
    LET first == CHOOSE i \in BadLetters(call.u) :
                   \A j \in BadLetters(call.u) : i <= j
    IN  /\ call.got = call.u[first]
        /\ call.range_hi = nr_gens

\* C15: every reset, which the constructor and the mutators make as their
\* last step, leaves the finished flag false, the non-trivial classes and
\* the quotient empty, the done flag and the two finiteness flags false;
\* the kind and the started flag are as before the call, the count, the
\* pairs and the parent are as the caller of reset wrote them; the call
\* does not fail.
C15_ResetFrame ==
  [][InTrace(call'.trace, "reset") =>
       /\ call'.err = NoError
       /\ ~finished'
       /\ non_trivial_classes' = Null
       /\ ~init_ntc_done'
       /\ quotient' = Null
       /\ ~is_obviously_finite'
       /\ ~is_obviously_infinite'
       /\ type' = type
       /\ started' = started
       /\ nr_gens' = IF nr_gens = UNDEFINED THEN call'.n ELSE nr_gens
       /\ gen_pairs' = IF call'.op = "add_pair"
                         THEN Append(gen_pairs, <<call'.u, call'.v>>)
                         ELSE gen_pairs
       /\ call'.op # "set_parent_froidure_pin" => parent' = parent]_vars

\* C15 witness: a pair has been appended, and the reset that followed left
\* the count, the pair and a fully enumerated parent in place.
C15_Witness ==
  /\ call.op = "add_pair"
  /\ InTrace(call.trace, "reset")
  /\ gen_pairs = <<<<call.u, call.v>>>>
  /\ parent # Null
  /\ parent_finished
  /\ nr_gens = 2

\* C17: between two resets quotient_impl returns at most once and the
\* non-trivial classes are computed at most once.  With a quotient cached,
\* quotient_froidure_pin returns it, immutable, without calling a hook;
\* with the done flag set, init_non_trivial_classes does nothing; a cache
\* that is filled changes only by a reset, which empties it; a call of
\* either that fails leaves its cache empty.
C17_ComputedOncePerEpoch ==
  [][/\ (call'.op = "quotient_froidure_pin" /\ quotient # Null) =>
          /\ call'.err = NoError
          /\ call'.trace = <<>>
          /\ quotient' = quotient
          /\ quotient'[1].immutable
          /\ UNCHANGED <<config, parent_finished, cache, runner>>
     /\ (call'.op = "init_non_trivial_classes" /\ init_ntc_done) =>
          /\ call'.err = NoError
          /\ call'.trace = <<>>
          /\ UNCHANGED <<config, parent_finished, cache, runner>>
     /\ (quotient # Null /\ quotient' # quotient) =>
          /\ quotient' = Null
          /\ InTrace(call'.trace, "reset")
     /\ (init_ntc_done
          /\ <<init_ntc_done', non_trivial_classes'>>
               # <<init_ntc_done, non_trivial_classes>>) =>
          /\ ~init_ntc_done'
          /\ non_trivial_classes' = Null
          /\ InTrace(call'.trace, "reset")
     /\ (quotient = Null /\ quotient' # Null) =>
          /\ call'.op = "quotient_froidure_pin"
          /\ InTrace(call'.trace, "quotient_impl")
          /\ quotient'[1].immutable
     /\ (call'.op = "quotient_froidure_pin" /\ call'.err # NoError) =>
          /\ quotient' = Null
          /\ cache' = cache
     /\ (call'.op = "init_non_trivial_classes" /\ call'.err # NoError) =>
          /\ non_trivial_classes' = Null
          /\ ~init_ntc_done'
          /\ cache' = cache]_vars

\* C17 witness: with the quotient and the non-trivial classes both cached,
\* the quotient has been asked for again and no hook was called.
C17_Witness ==
  /\ call.op = "quotient_froidure_pin"
  /\ call.err = NoError
  /\ call.trace = <<>>
  /\ quotient # Null
  /\ init_ntc_done

\* A fully enumerated quotient or parent is at hand.
Enumerated ==
  \/ quotient # Null /\ quotient[1].finished
  \/ parent # Null /\ parent_finished

\* C18: is_quotient_obviously_infinite returns FALSE without asking its
\* hook when the count is undefined or a fully enumerated quotient or
\* parent is at hand, and the hook's answer otherwise;
\* is_quotient_obviously_finite returns TRUE when a fully enumerated
\* quotient or parent is at hand, and its hook's answer otherwise.  (The
\* queries change no state, so the state after the call is the state in
\* which it was made.)
C18_ObviouslyInfiniteFinite ==
  /\ call.op = "is_quotient_obviously_infinite" =>
       IF nr_gens = UNDEFINED \/ Enumerated
         THEN call.ret = "FALSE" /\ call.trace = <<>> /\ call.hook_ans = "none"
         ELSE /\ call.trace = <<"is_quotient_obviously_infinite_impl">>
              /\ call.hook_ans \in {"TRUE", "FALSE"}
              /\ call.ret = call.hook_ans
  /\ call.op = "is_quotient_obviously_finite" =>
       IF Enumerated
         THEN call.ret = "TRUE"
         ELSE /\ call.trace = <<"is_quotient_obviously_finite_impl">>
              /\ call.hook_ans \in {"TRUE", "FALSE"}
              /\ call.ret = call.hook_ans

\* C18 witness: with a parent that is fully enumerated and no quotient, the
\* finite query has answered TRUE without asking its hook.
C18_Witness ==
  /\ call.op = "is_quotient_obviously_finite"
  /\ call.ret = "TRUE"
  /\ call.trace = <<>>
  /\ parent # Null /\ parent_finished
  /\ quotient = Null

\* C19: set_parent_froidure_pin, called under its assertions, stores the
\* parent, takes the count from it when the count is undefined, and
\* resets; a parent once stored is never replaced; with a parent stored the
\* count is defined and is the parent's number of generators.
C19_AttachParent ==
  [][/\ call'.op = "set_parent_froidure_pin" =>
          /\ parent = Null
          /\ parent' # Null
          /\ parent'[1].nr_generators = call'.n
          /\ nr_gens' = IF nr_gens = UNDEFINED THEN call'.n ELSE nr_gens
          /\ CachesCleared'
          /\ LastCalled(call'.trace) = "reset"
          /\ UNCHANGED <<type, gen_pairs, started>>
     /\ parent # Null => parent' = parent
     /\ parent' # Null =>
          /\ nr_gens' # UNDEFINED
          /\ nr_gens' = parent'[1].nr_generators]_vars

\* C19 witness: a parent has been attached to a congruence whose count was
\* already fixed and which already had a pair.
C19_Witness ==
  /\ call.op = "set_parent_froidure_pin"
  /\ call.trace = <<"reset">>
  /\ parent # Null
  /\ gen_pairs # <<>>

====
